---- MODULE Spec2Model ----
(***************************************************************************)
(* A model of the apithing crate: the ApiOperation contract, the blanket   *)
(* Execute wrapper, the ApiExecutor, and the operations that the crate's   *)
(* tests, doc example and examples run against them.                       *)
(*                                                                         *)
(* Rust Strings are sequences of one-character strings, HashMaps are       *)
(* functions on a finite set of keys, Option and Result are tagged         *)
(* records.  A call of an operation's execute is an operator from the      *)
(* context and the parameters to an effect: the context and the            *)
(* parameters as the call leaves them, the Result it returns, and the log  *)
(* of execute invocations it made (each with the context and parameters    *)
(* it was entered with).                                                   *)
(***************************************************************************)
EXTENDS Integers, Sequences, FiniteSets, TLC

VARIABLES
    local,      \* the context owned by the calling scope, or Moved
    executor,   \* the ApiExecutor, or NoExecutor before ApiExecutor::new
    last,       \* the latest call: how it was made, what went in, what came out
    tally,      \* the caller's own account of what it asked for so far
    frames      \* the calls in progress when a dispatch is followed step by
                \* step, outermost first; empty between calls

vars == <<local, executor, last, tally, frames>>

(***************************************************************************)
(* Bounds of the model.                                                    *)
(***************************************************************************)
\* contexts whose counter would exceed MaxCount are not explored
MaxCount == 2
\* CounterProps.increment ranges over 0..MaxIncrement
MaxIncrement == 2
\* operation values of one type range over 0..MaxInst instance payloads
MaxInst == 1
\* a caller that counts its dispatches makes at most MaxDispatches of them
MaxDispatches == 4
\* audit logs of more than MaxAuditLog entries are not explored
MaxIds == 3
MaxAuditLog == 8

(***************************************************************************)
(* Option, Result, strings.                                                *)
(***************************************************************************)
None == [tag |-> "None"]
Some(v) == [tag |-> "Some", value |-> v]

Ok(v) == [tag |-> "Ok", output |-> v]
Err(e) == [tag |-> "Err", error |-> e]

\* the unit value ()
Unit == <<>>

\* str::is_empty
is_empty(s) == Len(s) = 0

\* str::contains(char)
contains(s, c) == \E i \in 1..Len(s) : s[i] = c

\* the characters of the model's strings that take two bytes in UTF-8:
\* U+00E9 is e with an acute accent; every other character used is ASCII
TwoByteChars == {"U+00E9"}

\* char::len_utf8
len_utf8(c) == IF c \in TwoByteChars THEN 2 ELSE 1

\* str::len: the length in bytes of the UTF-8 encoding
RECURSIVE str_len(_)
str_len(s) ==
    IF s = <<>> THEN 0 ELSE len_utf8(Head(s)) + str_len(Tail(s))

\* the decimal digits, indexed by digit + 1
Digits == <<"0", "1", "2", "3", "4", "5", "6", "7", "8", "9">>

\* Display of an unsigned integer, as format!("{}", n) writes it
RECURSIVE to_string(_)
to_string(n) ==
    IF n < 10 THEN <<Digits[n + 1]>>
    ELSE to_string(n \div 10) \o <<Digits[(n % 10) + 1]>>

\* str::split(sep).collect(): the pieces between the separators, in order
RECURSIVE split(_, _)
split(s, sep) ==
    IF ~contains(s, sep) THEN <<s>>
    ELSE LET i == CHOOSE j \in 1..Len(s) :
                      s[j] = sep /\ \A k \in 1..(j - 1) : s[k] # sep
         IN <<SubSeq(s, 1, i - 1)>> \o split(SubSeq(s, i + 1, Len(s)), sep)

(***************************************************************************)
(* std::collections::HashMap<String, String>.                              *)
(***************************************************************************)
HashMap_new == [k \in {} |-> <<>>]

HashMap_insert(m, key, value) ==
    [k \in (DOMAIN m) \cup {key} |-> IF k = key THEN value ELSE m[k]]

HashMap_get(m, key) == IF key \in DOMAIN m THEN Some(m[key]) ELSE None

HashMap_is_empty(m) == DOMAIN m = {}

HashMap_len(m) == Cardinality(DOMAIN m)

(***************************************************************************)
(* The effect of one call of an operation's execute.                       *)
(***************************************************************************)
Effect(context, parameters, result, calls) ==
    [context |-> context, parameters |-> parameters,
     result |-> result, calls |-> calls]

\* one entry of the invocation log: execute of `op` entered with these values
Invoked(op, context, parameters) ==
    <<[op |-> op, context |-> context, parameters |-> parameters]>>

(***************************************************************************)
(* lib.rs, mod tests: DatabaseContext.                                     *)
(***************************************************************************)
DatabaseContext_new(connection) ==
    [type |-> "DatabaseContext",
     connection_pool |-> connection,
     transaction_count |-> 0,
     cache |-> HashMap_new]

increment_transaction(context) ==
    [context EXCEPT !.transaction_count = @ + 1]

transaction_count(context) == context.transaction_count

connection_pool(context) == context.connection_pool

cache(context) == context.cache

\* cache_mut().insert(key, value): the insert made through the mutable borrow
cache_mut_insert(context, key, value) ==
    [context EXCEPT !.cache = HashMap_insert(@, key, value)]

(***************************************************************************)
(* lib.rs, mod tests: the operations the tests define.                     *)
(***************************************************************************)
\* test_api_operation_trait_compiles
TestContext_new == [type |-> "TestContext", counter |-> 0]

\* a TestOperation that counts the call before it validates the value
TestOperation_execute_counting_first(context, parameters) ==
    LET c1 == [context EXCEPT !.counter = @ + 1]
    IN IF is_empty(parameters.value)
       THEN Effect(c1, parameters, Err("EmptyValue"),
                   Invoked("TestOperation", context, parameters))
       ELSE Effect(c1, parameters,
                   Ok([result |-> parameters.value, count |-> c1.counter]),
                   Invoked("TestOperation", context, parameters))

TestOperation_execute(context, parameters) ==
    IF is_empty(parameters.value)
    THEN Effect(context, parameters, Err("EmptyValue"),
                Invoked("TestOperation", context, parameters))
    ELSE LET c1 == [context EXCEPT !.counter = @ + 1]
         IN Effect(c1, parameters,
                   Ok([result |-> parameters.value, count |-> c1.counter]),
                   Invoked("TestOperation", context, parameters))

\* test_execute_trait
SimpleContext_new == [type |-> "SimpleContext", data |-> <<>>]

Processed == <<"P", "r", "o", "c", "e", "s", "s", "e", "d", ":", " ">>

SimpleOperation_execute(context, parameters) ==
    LET c1 == [context EXCEPT !.data = parameters.input]
    IN Effect(c1, parameters, Ok(Processed \o parameters.input),
              Invoked("SimpleOperation", context, parameters))

\* test_api_executor: `for _ in 0..n { context.increment_transaction(); }`
RECURSIVE increment_loop(_, _)
increment_loop(context, n) ==
    IF n = 0 THEN context
    ELSE increment_loop(increment_transaction(context), n - 1)

IncrementOperation_execute(context, parameters) ==
    LET c1 == increment_loop(context, parameters.increment)
    IN Effect(c1, parameters, Ok(transaction_count(c1)),
              Invoked("IncrementOperation", context, parameters))

\* test_context_sharing
StoreOperation_execute(context, parameters) ==
    LET c1 == cache_mut_insert(context, parameters.key, parameters.value)
        c2 == increment_transaction(c1)
    IN Effect(c2, parameters, Ok(Unit),
              Invoked("StoreOperation", context, parameters))

RetrieveOperation_execute(context, parameters) ==
    Effect(context, parameters,
           Ok(HashMap_get(cache(context), parameters.key)),
           Invoked("RetrieveOperation", context, parameters))

(***************************************************************************)
(* lib.rs, crate documentation: the Quick Start example.                   *)
(***************************************************************************)
MyAppContext_new(connection) ==
    [type |-> "MyAppContext", connection |-> connection, counter |-> 0]

\* next_id: bumps the counter and returns it; here the bumped context
next_id(context) == [context EXCEPT !.counter = @ + 1]

CreateEntity_execute(context, parameters) ==
    IF is_empty(parameters.name)
    THEN Effect(context, parameters, Err("ValidationFailed"),
                Invoked("CreateEntity", context, parameters))
    ELSE LET c1 == next_id(context)
             entity == [id |-> c1.counter,
                        name |-> parameters.name,
                        data |-> parameters.data]
         IN Effect(c1, parameters, Ok(entity),
                   Invoked("CreateEntity", context, parameters))

(***************************************************************************)
(* lib.rs, mod tests: the user operations of test_examples_compile and     *)
(* test_executor_pattern_example.                                          *)
(***************************************************************************)
user_ == <<"u", "s", "e", "r", "_">>

\* format!("user_{}", id)
user_key(id) == user_ \o to_string(id)

\* format!("{}:{}", name, email)
user_value(name, email) == name \o <<":">> \o email

ExampleAppContext_new(connection) ==
    [type |-> "ExampleAppContext",
     transaction_count |-> 0,
     cache |-> HashMap_new]

ExampleCreateUser_execute(context, parameters) ==
    IF ~contains(parameters.email, "@")
    THEN Effect(context, parameters, Err("InvalidEmail"),
                Invoked("ExampleCreateUser", context, parameters))
    ELSE LET c1 == [context EXCEPT !.transaction_count = @ + 1]
             user == [id |-> c1.transaction_count,
                      name |-> parameters.name,
                      email |-> parameters.email]
             c2 == [c1 EXCEPT !.cache =
                        HashMap_insert(@, user_key(user.id),
                                       user_value(user.name, user.email))]
         IN Effect(c2, parameters, Ok(user),
                   Invoked("ExampleCreateUser", context, parameters))

ExecutorExampleContext_new(connection) ==
    [type |-> "ExecutorExampleContext",
     transaction_count |-> 0,
     cache |-> HashMap_new]

ExecutorCreateUser_execute(context, parameters) ==
    IF ~contains(parameters.email, "@")
    THEN Effect(context, parameters, Err("InvalidEmail"),
                Invoked("ExecutorCreateUser", context, parameters))
    ELSE LET c1 == [context EXCEPT !.transaction_count = @ + 1]
             user == [id |-> c1.transaction_count,
                      name |-> parameters.name,
                      email |-> parameters.email]
             c2 == [c1 EXCEPT !.cache =
                        HashMap_insert(@, user_key(user.id),
                                       user_value(user.name, user.email))]
         IN Effect(c2, parameters, Ok(user),
                   Invoked("ExecutorCreateUser", context, parameters))

(***************************************************************************)
(* examples/basic_usage.rs: AppContext and the user operations.            *)
(***************************************************************************)
AppContext_new(connection) ==
    [type |-> "AppContext",
     connection_pool |-> connection,
     transaction_count |-> 0,
     cache |-> HashMap_new]

AppContext_increment_transaction(context) ==
    [context EXCEPT !.transaction_count = @ + 1]

AppContext_cache_mut_insert(context, key, value) ==
    [context EXCEPT !.cache = HashMap_insert(@, key, value)]

\* a CreateUser that takes the id from the counter before incrementing it
CreateUser_execute_numbering_first(context, parameters) ==
    IF ~contains(parameters.email, "@")
    THEN Effect(context, parameters, Err("InvalidEmail"),
                Invoked("CreateUser", context, parameters))
    ELSE LET user == [id |-> context.transaction_count,
                      name |-> parameters.name,
                      email |-> parameters.email]
             c1 == AppContext_increment_transaction(context)
             c2 == AppContext_cache_mut_insert(
                       c1, user_key(user.id),
                       user_value(user.name, user.email))
         IN Effect(c2, parameters, Ok(user),
                   Invoked("CreateUser", context, parameters))

\* a CreateUser that counts the transaction before it validates the email
CreateUser_execute_counting_first(context, parameters) ==
    LET c1 == AppContext_increment_transaction(context)
    IN IF ~contains(parameters.email, "@")
       THEN Effect(c1, parameters, Err("InvalidEmail"),
                   Invoked("CreateUser", context, parameters))
       ELSE LET user == [id |-> c1.transaction_count,
                         name |-> parameters.name,
                         email |-> parameters.email]
                c2 == AppContext_cache_mut_insert(
                          c1, user_key(user.id),
                          user_value(user.name, user.email))
            IN Effect(c2, parameters, Ok(user),
                      Invoked("CreateUser", context, parameters))

CreateUser_execute(context, parameters) ==
    IF ~contains(parameters.email, "@")
    THEN Effect(context, parameters, Err("InvalidEmail"),
                Invoked("CreateUser", context, parameters))
    ELSE LET c1 == AppContext_increment_transaction(context)
             user == [id |-> c1.transaction_count,
                      name |-> parameters.name,
                      email |-> parameters.email]
             c2 == AppContext_cache_mut_insert(
                       c1, user_key(user.id),
                       user_value(user.name, user.email))
         IN Effect(c2, parameters, Ok(user),
                   Invoked("CreateUser", context, parameters))

FindUser_execute(context, parameters) ==
    LET cache_key == user_key(parameters.user_id)
        cached == HashMap_get(context.cache, cache_key)
        parts == split(cached.value, ":")
        log == Invoked("FindUser", context, parameters)
    IN IF cached.tag = "Some" /\ Len(parts) = 2
       THEN Effect(context, parameters,
                   Ok([id |-> parameters.user_id,
                       name |-> parts[1],
                       email |-> parts[2]]),
                   log)
       ELSE Effect(context, parameters, Err("NotFound"), log)

\* an UpdateUser that moves the new name out of the parameters
UpdateUser_execute_taking_name(context, parameters) ==
    LET find_parameters == [user_id |-> parameters.user_id]
        found == FindUser_execute(context, find_parameters)
        log == Invoked("UpdateUser", context, parameters) \o found.calls
        taken == [parameters EXCEPT !.name = None]
    IN IF found.result.tag = "Err"
       THEN Effect(found.context, parameters, found.result, log)
       ELSE LET user0 == found.result.output
                user1 == IF parameters.name.tag = "Some"
                         THEN [user0 EXCEPT !.name = parameters.name.value]
                         ELSE user0
            IN IF parameters.email.tag = "Some"
                  /\ ~contains(parameters.email.value, "@")
               THEN Effect(found.context, taken, Err("InvalidEmail"), log)
               ELSE LET user2 == IF parameters.email.tag = "Some"
                                 THEN [user1 EXCEPT
                                           !.email = parameters.email.value]
                                 ELSE user1
                        c1 == AppContext_increment_transaction(found.context)
                        c2 == AppContext_cache_mut_insert(
                                  c1, user_key(user2.id),
                                  user_value(user2.name, user2.email))
                    IN Effect(c2, taken, Ok(user2), log)

\* an UpdateUser that stores the new name before it checks the new email
UpdateUser_execute_storing_name_first(context, parameters) ==
    LET find_parameters == [user_id |-> parameters.user_id]
        found == FindUser_execute(context, find_parameters)
        log == Invoked("UpdateUser", context, parameters) \o found.calls
    IN IF found.result.tag = "Err"
       THEN Effect(found.context, parameters, found.result, log)
       ELSE LET user0 == found.result.output
                user1 == IF parameters.name.tag = "Some"
                         THEN [user0 EXCEPT !.name = parameters.name.value]
                         ELSE user0
                c0 == AppContext_cache_mut_insert(
                          found.context, user_key(user1.id),
                          user_value(user1.name, user1.email))
            IN IF parameters.email.tag = "Some"
                  /\ ~contains(parameters.email.value, "@")
               THEN Effect(c0, parameters, Err("InvalidEmail"), log)
               ELSE LET user2 == IF parameters.email.tag = "Some"
                                 THEN [user1 EXCEPT
                                           !.email = parameters.email.value]
                                 ELSE user1
                        c1 == AppContext_increment_transaction(c0)
                        c2 == AppContext_cache_mut_insert(
                                  c1, user_key(user2.id),
                                  user_value(user2.name, user2.email))
                    IN Effect(c2, parameters, Ok(user2), log)

UpdateUser_execute(context, parameters) ==
    LET find_parameters == [user_id |-> parameters.user_id]
        found == FindUser_execute(context, find_parameters)
        log == Invoked("UpdateUser", context, parameters) \o found.calls
    IN IF found.result.tag = "Err"
       THEN \* the ? operator: FindUser's error is returned as it is
            Effect(found.context, parameters, found.result, log)
       ELSE LET user0 == found.result.output
                user1 == IF parameters.name.tag = "Some"
                         THEN [user0 EXCEPT !.name = parameters.name.value]
                         ELSE user0
            IN IF parameters.email.tag = "Some"
                  /\ ~contains(parameters.email.value, "@")
               THEN Effect(found.context, parameters, Err("InvalidEmail"), log)
               ELSE LET user2 == IF parameters.email.tag = "Some"
                                 THEN [user1 EXCEPT
                                           !.email = parameters.email.value]
                                 ELSE user1
                        c1 == AppContext_increment_transaction(found.context)
                        c2 == AppContext_cache_mut_insert(
                                  c1, user_key(user2.id),
                                  user_value(user2.name, user2.email))
                    IN Effect(c2, parameters, Ok(user2), log)

(***************************************************************************)
(* f64 as the examples use it: prices.  A finite value is held in          *)
(* hundredths (12.99 is 1299), which covers every value with at most two   *)
(* fraction digits; NaN and +infinity are values of their own.             *)
(***************************************************************************)
F64(hundredths) == [kind |-> "finite", hundredths |-> hundredths]
NaN == [kind |-> "nan"]
Infinity == [kind |-> "inf"]

\* f64::is_nan
is_nan(x) == x.kind = "nan"

\* `x <= 0.0`: false for NaN
le_zero(x) == x.kind = "finite" /\ x.hundredths <= 0

\* Display of an f64, as format!("{}", x) writes it: the shortest decimal
\* that reads back as x, so no trailing zeros and no "." for a whole number
f64_to_string(x) ==
    CASE x.kind = "nan" -> <<"N", "a", "N">>
      [] x.kind = "inf" -> <<"i", "n", "f">>
      [] x.kind = "finite" ->
             LET h == IF x.hundredths < 0 THEN -x.hundredths ELSE x.hundredths
                 frac == h % 100
             IN (IF x.hundredths < 0 THEN <<"-">> ELSE <<>>)
                \o to_string(h \div 100)
                \o (IF frac = 0 THEN <<>>
                    ELSE IF frac % 10 = 0
                         THEN <<".", Digits[(frac \div 10) + 1]>>
                         ELSE <<".", Digits[(frac \div 10) + 1],
                                Digits[(frac % 10) + 1]>>)

is_digits(s) == \A i \in 1..Len(s) : \E d \in 1..10 : Digits[d] = s[i]

\* the number a string of decimal digits writes (0 for the empty string)
RECURSIVE digits_value(_)
digits_value(s) ==
    IF Len(s) = 0 THEN 0
    ELSE digits_value(SubSeq(s, 1, Len(s) - 1)) * 10
         + (CHOOSE d \in 0..9 : Digits[d + 1] = s[Len(s)])

\* str::parse::<f64>: "NaN", "inf" and "infinity", or an optional sign,
\* digits, and an optional "." with digits, at least one digit in all.
\* A fraction of more than two digits names no value of the model and no
\* Display of one; exponents are not read.
parse_f64(s) ==
    LET negative == Len(s) > 0 /\ s[1] = "-"
        signed == Len(s) > 0 /\ s[1] \in {"-", "+"}
        body == IF signed THEN SubSeq(s, 2, Len(s)) ELSE s
        parts == split(body, ".")
        whole == parts[1]
        frac == IF Len(parts) = 2 THEN parts[2] ELSE <<>>
        magnitude == digits_value(whole) * 100
                     + (IF Len(frac) = 1 THEN digits_value(frac) * 10
                        ELSE digits_value(frac))
    IN IF body \in {<<"N", "a", "N">>, <<"n", "a", "n">>}
       THEN Ok(NaN)
       ELSE IF ~negative
               /\ body \in {<<"i", "n", "f">>,
                            <<"i", "n", "f", "i", "n", "i", "t", "y">>}
       THEN Ok(Infinity)
       ELSE IF /\ Len(parts) <= 2
               /\ is_digits(whole) /\ is_digits(frac)
               /\ Len(whole) + Len(frac) > 0
               /\ Len(frac) <= 2
       THEN Ok(F64(IF negative THEN -magnitude ELSE magnitude))
       ELSE Err("ParseFloatError")

(***************************************************************************)
(* examples/executor_pattern.rs: AppContext, the user operations and the   *)
(* product operations.                                                     *)
(***************************************************************************)
PatternAppContext_new(connection) ==
    [type |-> "PatternAppContext",
     connection_pool |-> connection,
     transaction_count |-> 0,
     cache |-> HashMap_new]

PatternAppContext_increment_transaction(context) ==
    [context EXCEPT !.transaction_count = @ + 1]

PatternAppContext_cache_mut_insert(context, key, value) ==
    [context EXCEPT !.cache = HashMap_insert(@, key, value)]

\* a CreateUser that numbers the user before it counts the transaction
PatternCreateUser_execute_numbering_first(context, parameters) ==
    IF ~contains(parameters.email, "@")
    THEN Effect(context, parameters, Err("InvalidEmail"),
                Invoked("PatternCreateUser", context, parameters))
    ELSE LET user == [id |-> context.transaction_count,
                      name |-> parameters.name,
                      email |-> parameters.email]
             c1 == PatternAppContext_increment_transaction(context)
             c2 == PatternAppContext_cache_mut_insert(
                       c1, user_key(user.id),
                       user_value(user.name, user.email))
         IN Effect(c2, parameters, Ok(user),
                   Invoked("PatternCreateUser", context, parameters))

PatternCreateUser_execute(context, parameters) ==
    IF ~contains(parameters.email, "@")
    THEN Effect(context, parameters, Err("InvalidEmail"),
                Invoked("PatternCreateUser", context, parameters))
    ELSE LET c1 == PatternAppContext_increment_transaction(context)
             user == [id |-> c1.transaction_count,
                      name |-> parameters.name,
                      email |-> parameters.email]
             c2 == PatternAppContext_cache_mut_insert(
                       c1, user_key(user.id),
                       user_value(user.name, user.email))
         IN Effect(c2, parameters, Ok(user),
                   Invoked("PatternCreateUser", context, parameters))

\* a FindUser that falls back to any entry cached under that id
PatternFindUser_execute_any_family(context, parameters) ==
    LET as_user == HashMap_get(context.cache, user_key(parameters.user_id))
        cached == IF as_user.tag = "Some" THEN as_user
                  ELSE HashMap_get(
                           context.cache,
                           <<"p", "r", "o", "d", "u", "c", "t", "_">>
                           \o to_string(parameters.user_id))
        parts == split(cached.value, ":")
        log == Invoked("PatternFindUser", context, parameters)
    IN IF cached.tag = "Some" /\ Len(parts) >= 2
       THEN Effect(context, parameters,
                   Ok([id |-> parameters.user_id,
                       name |-> parts[1],
                       email |-> parts[2]]),
                   log)
       ELSE Effect(context, parameters, Err("NotFound"), log)

PatternFindUser_execute(context, parameters) ==
    LET cache_key == user_key(parameters.user_id)
        cached == HashMap_get(context.cache, cache_key)
        parts == split(cached.value, ":")
        log == Invoked("PatternFindUser", context, parameters)
    IN IF cached.tag = "Some" /\ Len(parts) = 2
       THEN Effect(context, parameters,
                   Ok([id |-> parameters.user_id,
                       name |-> parts[1],
                       email |-> parts[2]]),
                   log)
       ELSE Effect(context, parameters, Err("NotFound"), log)

product_ == <<"p", "r", "o", "d", "u", "c", "t", "_">>

\* format!("product_{}", id)
product_key(id) == product_ \o to_string(id)

\* format!("{}:{}:{}", name, price, category)
product_value(name, price, category) ==
    name \o <<":">> \o f64_to_string(price) \o <<":">> \o category

\* a CreateProduct that does not count the transaction
CreateProduct_execute_not_counting(context, parameters) ==
    IF le_zero(parameters.price) \/ is_nan(parameters.price)
    THEN Effect(context, parameters, Err("InvalidPrice"),
                Invoked("CreateProduct", context, parameters))
    ELSE LET product == [id |-> context.transaction_count,
                         name |-> parameters.name,
                         price |-> parameters.price,
                         category |-> parameters.category]
             c2 == PatternAppContext_cache_mut_insert(
                       context, product_key(product.id),
                       product_value(product.name, product.price,
                                     product.category))
         IN Effect(c2, parameters, Ok(product),
                   Invoked("CreateProduct", context, parameters))

CreateProduct_execute(context, parameters) ==
    IF le_zero(parameters.price) \/ is_nan(parameters.price)
    THEN Effect(context, parameters, Err("InvalidPrice"),
                Invoked("CreateProduct", context, parameters))
    ELSE LET c1 == PatternAppContext_increment_transaction(context)
             product == [id |-> c1.transaction_count,
                         name |-> parameters.name,
                         price |-> parameters.price,
                         category |-> parameters.category]
             c2 == PatternAppContext_cache_mut_insert(
                       c1, product_key(product.id),
                       product_value(product.name, product.price,
                                     product.category))
         IN Effect(c2, parameters, Ok(product),
                   Invoked("CreateProduct", context, parameters))

\* a FindProduct that counts the lookup as a transaction
FindProduct_execute_counting(context, parameters) ==
    LET cache_key == product_key(parameters.product_id)
        cached == HashMap_get(context.cache, cache_key)
        parts == split(cached.value, ":")
        log == Invoked("FindProduct", context, parameters)
        c1 == PatternAppContext_increment_transaction(context)
    IN IF /\ cached.tag = "Some"
          /\ Len(parts) = 3
          /\ parse_f64(parts[2]).tag = "Ok"
       THEN Effect(c1, parameters,
                   Ok([id |-> parameters.product_id,
                       name |-> parts[1],
                       price |-> parse_f64(parts[2]).output,
                       category |-> parts[3]]),
                   log)
       ELSE Effect(c1, parameters, Err("NotFound"), log)

FindProduct_execute(context, parameters) ==
    LET cache_key == product_key(parameters.product_id)
        cached == HashMap_get(context.cache, cache_key)
        parts == split(cached.value, ":")
        log == Invoked("FindProduct", context, parameters)
    IN IF /\ cached.tag = "Some"
          /\ Len(parts) = 3
          /\ parse_f64(parts[2]).tag = "Ok"
       THEN Effect(context, parameters,
                   Ok([id |-> parameters.product_id,
                       name |-> parts[1],
                       price |-> parse_f64(parts[2]).output,
                       category |-> parts[3]]),
                   log)
       ELSE Effect(context, parameters, Err("NotFound"), log)

(***************************************************************************)
(* examples/advanced_patterns.rs: format_timestamp, AppContext with its    *)
(* operations, ApplicationContext with its audit log, and the two          *)
(* operations built on them.  A string literal that no operation takes     *)
(* apart is written as one piece, <<"rollback">>.                          *)
(***************************************************************************)
SECONDS_PER_DAY == 86400
SECONDS_PER_HOUR == 3600
SECONDS_PER_MINUTE == 60
UNIX_EPOCH_YEAR == 1970
DAYS_PER_YEAR == 365
DAYS_PER_MONTH == 30

\* format!("{:0width$}", n)
zero_padded(n, width) ==
    LET d == to_string(n)
    IN IF Len(d) >= width THEN d
       ELSE [i \in 1..(width - Len(d)) |-> "0"] \o d

format_timestamp(timestamp) ==
    LET days_since_epoch == timestamp \div SECONDS_PER_DAY
        seconds_in_day == timestamp % SECONDS_PER_DAY
        hours == seconds_in_day \div SECONDS_PER_HOUR
        minutes == (seconds_in_day % SECONDS_PER_HOUR) \div SECONDS_PER_MINUTE
        seconds == seconds_in_day % SECONDS_PER_MINUTE
        year == UNIX_EPOCH_YEAR + (days_since_epoch \div DAYS_PER_YEAR)
        remaining_days == days_since_epoch % DAYS_PER_YEAR
        month == (remaining_days \div DAYS_PER_MONTH) + 1
        day == (remaining_days % DAYS_PER_MONTH) + 1
    IN zero_padded(year, 4) \o <<"-">> \o zero_padded(month, 2) \o <<"-">>
       \o zero_padded(day, 2) \o <<"T">> \o zero_padded(hours, 2) \o <<":">>
       \o zero_padded(minutes, 2) \o <<":">> \o zero_padded(seconds, 2)
       \o <<"Z">>

\* char::is_whitespace, for the characters the inputs use
Whitespace == {" ", "\t", "\n"}

\* str::trim
RECURSIVE trim(_)
trim(s) ==
    IF Len(s) = 0 THEN s
    ELSE IF s[1] \in Whitespace THEN trim(SubSeq(s, 2, Len(s)))
    ELSE IF s[Len(s)] \in Whitespace THEN trim(SubSeq(s, 1, Len(s) - 1))
    ELSE s

AdvancedAppContext_new(_connection) ==
    [type |-> "AdvancedAppContext",
     transaction_count |-> 0,
     cache |-> HashMap_new]

AdvancedAppContext_increment_transaction(context) ==
    [context EXCEPT !.transaction_count = @ + 1]

AdvancedAppContext_cache_mut_insert(context, key, value) ==
    [context EXCEPT !.cache = HashMap_insert(@, key, value)]

AdvancedCreateUser_execute(context, parameters) ==
    IF ~contains(parameters.email, "@")
    THEN Effect(context, parameters, Err("InvalidEmail"),
                Invoked("AdvancedCreateUser", context, parameters))
    ELSE LET c1 == AdvancedAppContext_increment_transaction(context)
             user == [id |-> c1.transaction_count,
                      name |-> parameters.name,
                      email |-> parameters.email]
             c2 == AdvancedAppContext_cache_mut_insert(
                       c1, user_key(user.id),
                       user_value(user.name, user.email))
         IN Effect(c2, parameters, Ok(user),
                   Invoked("AdvancedCreateUser", context, parameters))

AdvancedFindUser_execute(context, parameters) ==
    LET cache_key == user_key(parameters.id)
        cached == HashMap_get(context.cache, cache_key)
        parts == split(cached.value, ":")
        log == Invoked("AdvancedFindUser", context, parameters)
    IN IF cached.tag = "Some" /\ Len(parts) = 2
       THEN Effect(context, parameters,
                   Ok([id |-> parameters.id,
                       name |-> parts[1],
                       email |-> parts[2]]),
                   log)
       ELSE Effect(context, parameters, Err("NotFound"), log)

AdvancedCreateProduct_execute(context, parameters) ==
    LET log == Invoked("AdvancedCreateProduct", context, parameters)
    IN IF le_zero(parameters.price) \/ is_nan(parameters.price)
       THEN Effect(context, parameters, Err("InvalidPrice"), log)
       ELSE IF is_empty(trim(parameters.category))
       THEN Effect(context, parameters, Err("InvalidCategory"), log)
       ELSE LET c1 == AdvancedAppContext_increment_transaction(context)
                product == [id |-> c1.transaction_count,
                            name |-> parameters.name,
                            price |-> parameters.price,
                            category |-> parameters.category]
                c2 == AdvancedAppContext_cache_mut_insert(
                          c1, product_key(product.id),
                          product_value(product.name, product.price,
                                        product.category))
            IN Effect(c2, parameters, Ok(product), log)

ApplicationContext_new(connection, request_id) ==
    [type |-> "ApplicationContext",
     database |-> AdvancedAppContext_new(connection),
     audit_log |-> <<>>,
     config |-> HashMap_insert(
                    HashMap_insert(HashMap_new, <<"max_retries">>, <<"3">>),
                    <<"timeout_seconds">>, <<"3", "0">>),
     request_id |-> request_id,
     features_enabled |->
         HashMap_insert(
             HashMap_insert(
                 HashMap_insert(HashMap_new, <<"enhanced_validation">>, TRUE),
                 <<"audit_logging">>, TRUE),
             <<"rollback_support">>, TRUE)]

\* `*self.features_enabled.get(feature).unwrap_or(&false)`
is_feature_enabled(self, feature) ==
    LET flag == HashMap_get(self.features_enabled, feature)
    IN IF flag.tag = "Some" THEN flag.value ELSE FALSE

\* 2024-01-15T10:00:00Z as Unix timestamp
base_time == 1705312800

\* a log that keeps only its newest entry: the new entry takes the place of
\* the one before it
log_operation_overwriting(self, operation, success, details) ==
    IF is_feature_enabled(self, <<"audit_logging">>)
    THEN LET seconds_offset == Len(self.audit_log)
             timestamp_seconds == base_time + seconds_offset
             timestamp == format_timestamp(timestamp_seconds)
             entry == [operation |-> operation,
                       timestamp |-> timestamp,
                       transaction_id |-> self.database.transaction_count,
                       success |-> success,
                       details |-> details]
         IN [self EXCEPT !.audit_log =
                IF @ = <<>> THEN <<entry>>
                ELSE [@ EXCEPT ![Len(@)] = entry]]
    ELSE self

log_operation(self, operation, success, details) ==
    IF is_feature_enabled(self, <<"audit_logging">>)
    THEN LET seconds_offset == Len(self.audit_log)
             timestamp_seconds == base_time + seconds_offset
             timestamp == format_timestamp(timestamp_seconds)
         IN [self EXCEPT !.audit_log =
                Append(@, [operation |-> operation,
                           timestamp |-> timestamp,
                           transaction_id |->
                               self.database.transaction_count,
                           success |-> success,
                           details |-> details])]
    ELSE self

\* what simulate_rollback leaves of the context, and what it returns
simulate_rollback(self, _checkpoint) ==
    IF ~is_feature_enabled(self, <<"rollback_support">>)
    THEN [self |-> self, result |-> Err(<<"Rollback support not enabled">>)]
    ELSE [self |-> log_operation(self, <<"rollback">>, TRUE,
                                 <<"Simulated rollback to checkpoint">>),
          result |-> Ok(Unit)]

\* CreateUserWithValidation::execute from the match on: `created` is what
\* CreateUser::execute returned for the database of `validated`
CreateUserWithValidation_match(validated, created, calls) ==
    IF created.result.tag = "Ok"
    THEN Effect(log_operation(
                    [validated EXCEPT !.database = created.context],
                    <<"create_user_with_validation">>, TRUE,
                    <<"Created user ">> \o created.result.output.name
                    \o <<" with ID ">>
                    \o to_string(created.result.output.id)),
                created.parameters, Ok(created.result.output),
                calls \o created.calls)
    ELSE Effect(log_operation(
                    [validated EXCEPT !.database = created.context],
                    <<"create_user_with_validation">>, FALSE,
                    <<"Database operation failed">>),
                created.parameters, created.result, calls \o created.calls)

\* CreateUserWithValidation::execute after its first log entry, which left
\* the context `started`
CreateUserWithValidation_validate(started, parameters, calls) ==
    IF /\ is_feature_enabled(started, <<"enhanced_validation">>)
       /\ str_len(parameters.name) < 2
    THEN Effect(log_operation(started, <<"create_user_with_validation">>,
                              FALSE, <<"Name too short">>),
                parameters, Err("InvalidEmail"), calls)
    ELSE IF /\ is_feature_enabled(started, <<"enhanced_validation">>)
            /\ \/ ~contains(parameters.email, "@")
               \/ ~contains(parameters.email, ".")
    THEN Effect(log_operation(started, <<"create_user_with_validation">>,
                              FALSE, <<"Invalid email format">>),
                parameters, Err("InvalidEmail"), calls)
    ELSE CreateUserWithValidation_match(
             started,
             AdvancedCreateUser_execute(started.database, parameters),
             calls)

CreateUserWithValidation_execute(context, parameters) ==
    CreateUserWithValidation_validate(
        log_operation(context, <<"create_user_with_validation">>, TRUE,
                      <<"Starting validation">>),
        parameters,
        Invoked("CreateUserWithValidation", context, parameters))

\* CreateUserWithProduct::execute from the second match on: `created` is
\* what CreateProduct::execute returned for the database of `with_user`
CreateUserWithProduct_match_product(with_user, parameters, checkpoint, user, created, calls) ==
    IF created.result.tag = "Err"
    THEN Effect(simulate_rollback(
                    log_operation(
                        [with_user EXCEPT !.database = created.context],
                        <<"create_user_with_product">>, FALSE,
                        <<"Product creation failed, rolling back">>),
                    checkpoint).self,
                parameters,
                Err(<<"Failed to create product: ">>
                    \o <<created.result.error>>),
                calls \o created.calls)
    ELSE Effect(log_operation(
                    log_operation(
                        [with_user EXCEPT !.database = created.context],
                        <<"create_user_with_product">>, TRUE,
                        <<"Product created successfully">>),
                    <<"create_user_with_product">>, TRUE,
                    <<"Completed: User ">> \o to_string(user.id)
                    \o <<" and Product ">>
                    \o to_string(created.result.output.id)),
                parameters,
                Ok(<<user, created.result.output>>),
                calls \o created.calls)

\* a composite that creates the product on the database as it was at the
\* checkpoint, so the product does not see the user's creation
CreateUserWithProduct_product_from_checkpoint(with_user, parameters, checkpoint, user, calls) ==
    CreateUserWithProduct_match_product(
        with_user, parameters, checkpoint, user,
        AdvancedCreateProduct_execute(
            [with_user.database EXCEPT !.transaction_count = checkpoint],
            [name |-> parameters.product_name,
             price |-> parameters.product_price,
             category |-> parameters.product_category]),
        calls)

\* CreateUserWithProduct::execute after the user was created, with the
\* context `with_user` its log entry left
CreateUserWithProduct_product(with_user, parameters, checkpoint, user, calls) ==
    CreateUserWithProduct_match_product(
        with_user, parameters, checkpoint, user,
        AdvancedCreateProduct_execute(
            with_user.database,
            [name |-> parameters.product_name,
             price |-> parameters.product_price,
             category |-> parameters.product_category]),
        calls)

\* CreateUserWithProduct::execute from the first match on: `validated` is
\* what CreateUserWithValidation::execute returned
CreateUserWithProduct_match_user(parameters, checkpoint, validated, calls) ==
    IF validated.result.tag = "Err"
    THEN Effect(simulate_rollback(
                    log_operation(validated.context,
                                  <<"create_user_with_product">>, FALSE,
                                  <<"User creation failed">>),
                    checkpoint).self,
                parameters,
                Err(<<"Failed to create user: ">>
                    \o <<validated.result.error>>),
                calls \o validated.calls)
    ELSE CreateUserWithProduct_product(
             log_operation(validated.context,
                           <<"create_user_with_product">>, TRUE,
                           <<"User created successfully">>),
             parameters, checkpoint, validated.result.output,
             calls \o validated.calls)

CreateUserWithProduct_execute(context, parameters) ==
    CreateUserWithProduct_match_user(
        parameters,
        context.database.transaction_count,
        CreateUserWithValidation_execute(
            log_operation(context, <<"create_user_with_product">>, TRUE,
                          <<"Starting composite operation">>),
            [name |-> parameters.user_name,
             email |-> parameters.user_email]),
        Invoked("CreateUserWithProduct", context, parameters))

(***************************************************************************)
(* lib.rs: the ApiOperation contract, the blanket Execute implementation   *)
(* and the ApiExecutor.                                                    *)
(***************************************************************************)
\* `Op::execute(context, parameters)`: the implementation the type selects
ApiOperation_execute(op_type, context, parameters) ==
    CASE op_type = "TestOperation" ->
             TestOperation_execute(context, parameters)
      [] op_type = "SimpleOperation" ->
             SimpleOperation_execute(context, parameters)
      [] op_type = "IncrementOperation" ->
             IncrementOperation_execute(context, parameters)
      [] op_type = "StoreOperation" ->
             StoreOperation_execute(context, parameters)
      [] op_type = "RetrieveOperation" ->
             RetrieveOperation_execute(context, parameters)
      [] op_type = "CreateEntity" ->
             CreateEntity_execute(context, parameters)
      [] op_type = "ExampleCreateUser" ->
             ExampleCreateUser_execute(context, parameters)
      [] op_type = "ExecutorCreateUser" ->
             ExecutorCreateUser_execute(context, parameters)
      [] op_type = "CreateUser" ->
             CreateUser_execute(context, parameters)
      [] op_type = "FindUser" ->
             FindUser_execute(context, parameters)
      [] op_type = "UpdateUser" ->
             UpdateUser_execute(context, parameters)
      [] op_type = "PatternCreateUser" ->
             PatternCreateUser_execute(context, parameters)
      [] op_type = "PatternFindUser" ->
             PatternFindUser_execute(context, parameters)
      [] op_type = "CreateProduct" ->
             CreateProduct_execute(context, parameters)
      [] op_type = "FindProduct" ->
             FindProduct_execute(context, parameters)
      [] op_type = "AdvancedCreateUser" ->
             AdvancedCreateUser_execute(context, parameters)
      [] op_type = "AdvancedFindUser" ->
             AdvancedFindUser_execute(context, parameters)
      [] op_type = "AdvancedCreateProduct" ->
             AdvancedCreateProduct_execute(context, parameters)
      [] op_type = "CreateUserWithValidation" ->
             CreateUserWithValidation_execute(context, parameters)
      [] op_type = "CreateUserWithProduct" ->
             CreateUserWithProduct_execute(context, parameters)

\* a wrapper that runs the operation on a copy of the context
execute_on_a_copy(self, context, parameters) ==
    LET e == ApiOperation_execute(self.type, context, parameters)
    IN Effect(context, e.parameters, e.result, e.calls)

\* impl<T, C, P> Execute<C, P> for T: `self` is consumed, T::execute is called
execute_on(self, context, parameters) ==
    ApiOperation_execute(self.type, context, parameters)

\* what a method of the executor leaves: the executor, the parameters, the
\* value returned and the execute invocations made
ExecutorEffect(self, parameters, result, calls) ==
    [self |-> self, parameters |-> parameters,
     result |-> result, calls |-> calls]

\* a context of the same type as it is when newly constructed
Fresh(context) ==
    CASE context.type = "DatabaseContext" ->
             DatabaseContext_new(context.connection_pool)
      [] context.type = "TestContext" -> TestContext_new
      [] context.type = "SimpleContext" -> SimpleContext_new
      [] context.type = "MyAppContext" -> MyAppContext_new(context.connection)
      [] context.type = "ExampleAppContext" -> ExampleAppContext_new("test_db")
      [] context.type = "ExecutorExampleContext" ->
             ExecutorExampleContext_new("executor_test_db")
      [] context.type = "AppContext" -> AppContext_new(context.connection_pool)

\* a constructor that builds the executor around a new context of its own
ApiExecutor_new_around_fresh(context) ==
    ExecutorEffect([context |-> Fresh(context)], Unit, Unit, <<>>)

ApiExecutor_new(context) ==
    ExecutorEffect([context |-> context], Unit, Unit, <<>>)

\* an executor that starts every dispatch from a newly constructed context
ApiExecutor_execute_from_fresh(self, _op, parameters) ==
    LET e == ApiOperation_execute(_op.type, Fresh(self.context), parameters)
    IN ExecutorEffect([self EXCEPT !.context = e.context],
                      e.parameters, e.result, e.calls)

\* an executor that reports an operation's error as an error of its own
ApiExecutor_execute_translating(self, _op, parameters) ==
    LET e == ApiOperation_execute(_op.type, self.context, parameters)
    IN ExecutorEffect([self EXCEPT !.context = e.context], e.parameters,
                      IF e.result.tag = "Err"
                      THEN Err("OperationFailed") ELSE e.result,
                      e.calls)

\* an executor that runs the operation once more when it returned an error
ApiExecutor_execute_retrying(self, _op, parameters) ==
    LET e1 == ApiOperation_execute(_op.type, self.context, parameters)
        e2 == ApiOperation_execute(_op.type, e1.context, parameters)
    IN IF e1.result.tag = "Err"
       THEN ExecutorEffect([self EXCEPT !.context = e2.context],
                           e2.parameters, e2.result, e1.calls \o e2.calls)
       ELSE ExecutorEffect([self EXCEPT !.context = e1.context],
                           e1.parameters, e1.result, e1.calls)

\* an executor that runs the operation only for an operation value that
\* carries 0, and on a copy of the held context for any other value
ApiExecutor_execute_reading_op(self, _op, parameters) ==
    LET e == ApiOperation_execute(_op.type, self.context, parameters)
    IN IF _op.inst = 0
       THEN ExecutorEffect([self EXCEPT !.context = e.context],
                           e.parameters, e.result, e.calls)
       ELSE ExecutorEffect(self, e.parameters, e.result, e.calls)

\* an executor that runs the operation on a copy of the held context
ApiExecutor_execute_on_a_copy(self, _op, parameters) ==
    LET e == ApiOperation_execute(_op.type, self.context, parameters)
    IN ExecutorEffect(self, e.parameters, e.result, e.calls)

\* the executor after the operation ran on `&mut self.context` with the
\* effect `e`, and what the operation returned
Held(self, e) ==
    ExecutorEffect([self EXCEPT !.context = e.context],
                   e.parameters, e.result, e.calls)

ApiExecutor_execute(self, _op, parameters) ==
    Held(self, ApiOperation_execute(_op.type, self.context, parameters))

ApiExecutor_context(self) ==
    ExecutorEffect(self, Unit, self.context, <<>>)

\* context_mut hands out `&mut self.context`: the value the borrow reads ...
ApiExecutor_context_mut(self) == self.context

\* a context_mut that hands out a borrow of a copy: the write is lost
ApiExecutor_context_mut_assign_to_copy(self, context) == self

\* ... and the executor after the caller assigned `context` through it
ApiExecutor_context_mut_assign(self, context) ==
    [self EXCEPT !.context = context]

\* `Op::execute(executor.context_mut(), &parameters)`
\* the executor after the operation ran on the borrow context_mut() gave
\* out with the effect `e`, and what the operation returned
Lent(self, e) ==
    ExecutorEffect(ApiExecutor_context_mut_assign(self, e.context),
                   e.parameters, e.result, e.calls)

execute_through_context_mut(self, op_type, parameters) ==
    Lent(self, ApiOperation_execute(op_type, ApiExecutor_context_mut(self),
                                    parameters))

(***************************************************************************)
(* The inputs the calls are made with.                                     *)
(***************************************************************************)
Keys == {<<"k">>, <<"j">>}
Values == {<<"v">>, <<"w">>}
Names == {<<"A">>, <<"B", ":">>}
Emails == {<<"a", "@", "b">>, <<"a", "b">>}
UserIds == 1..MaxCount
ProductNames == {<<"L">>, <<"M", ":">>}
\* 0, 5, 12.5, NaN and +infinity
Prices == {F64(0), F64(500), F64(1250), NaN, Infinity}
Categories == {<<"E">>}
ProductIds == 1..MaxCount
AdvancedNames == {<<"X">>, <<"A", "l">>, <<"U+00E9">>}
AdvancedEmails == {<<"a", "@", "b", ".", "c">>, <<"a", "@", "b">>, <<"a", "b">>}
\* -100, 29.99 and NaN
AdvancedPrices == {F64(-10000), F64(2999), NaN}
AdvancedCategories == {<<"S">>, <<" ">>}
Option(S) == {None} \cup {Some(v) : v \in S}

\* the context type each operation is implemented for
ContextOf(op_type) ==
    CASE op_type = "TestOperation" -> "TestContext"
      [] op_type = "SimpleOperation" -> "SimpleContext"
      [] op_type \in {"IncrementOperation", "StoreOperation",
                      "RetrieveOperation"} -> "DatabaseContext"
      [] op_type = "CreateEntity" -> "MyAppContext"
      [] op_type = "ExampleCreateUser" -> "ExampleAppContext"
      [] op_type = "ExecutorCreateUser" -> "ExecutorExampleContext"
      [] op_type \in {"CreateUser", "FindUser", "UpdateUser"} -> "AppContext"
      [] op_type \in {"PatternCreateUser", "PatternFindUser",
                      "CreateProduct", "FindProduct"} -> "PatternAppContext"
      [] op_type \in {"AdvancedCreateUser", "AdvancedFindUser",
                      "AdvancedCreateProduct"} -> "AdvancedAppContext"
      [] op_type \in {"CreateUserWithValidation",
                      "CreateUserWithProduct"} -> "ApplicationContext"

OpTypes ==
    {"TestOperation", "SimpleOperation", "IncrementOperation",
     "StoreOperation", "RetrieveOperation", "CreateEntity",
     "ExampleCreateUser", "ExecutorCreateUser",
     "CreateUser", "FindUser", "UpdateUser",
     "PatternCreateUser", "PatternFindUser", "CreateProduct", "FindProduct",
     "AdvancedCreateUser", "AdvancedFindUser", "AdvancedCreateProduct",
     "CreateUserWithValidation", "CreateUserWithProduct"}

\* the parameters type each operation is implemented for
ParametersOf(op_type) ==
    CASE op_type = "TestOperation" -> [value : {<<>>, <<"t">>}]
      [] op_type = "SimpleOperation" -> [input : {<<>>, <<"x">>}]
      [] op_type = "IncrementOperation" -> [increment : 0..MaxIncrement]
      [] op_type = "StoreOperation" -> [key : Keys, value : Values]
      [] op_type = "RetrieveOperation" -> [key : Keys]
      [] op_type = "CreateEntity" -> [name : {<<>>, <<"E">>}, data : {<<"d">>}]
      [] op_type \in {"ExampleCreateUser", "ExecutorCreateUser", "CreateUser",
                      "PatternCreateUser"} ->
             [name : Names, email : Emails]
      [] op_type \in {"FindUser", "PatternFindUser"} -> [user_id : UserIds]
      [] op_type = "CreateProduct" ->
             [name : ProductNames, price : Prices, category : Categories]
      [] op_type = "FindProduct" -> [product_id : ProductIds]
      [] op_type \in {"AdvancedCreateUser", "CreateUserWithValidation"} ->
             [name : AdvancedNames, email : AdvancedEmails]
      [] op_type = "AdvancedFindUser" -> [id : UserIds]
      [] op_type = "AdvancedCreateProduct" ->
             [name : ProductNames, price : AdvancedPrices,
              category : AdvancedCategories]
      [] op_type = "CreateUserWithProduct" ->
             [user_name : AdvancedNames, user_email : AdvancedEmails,
              product_name : {<<"L">>}, product_price : AdvancedPrices,
              product_category : AdvancedCategories]
      [] op_type = "UpdateUser" ->
             [user_id : UserIds, name : Option(Names), email : Option(Emails)]

\* operation values: the type, and whatever the value itself carries
OpValues == [type : OpTypes, inst : 0..MaxInst]

\* the contexts the tests and examples construct
InitialContexts ==
    {DatabaseContext_new("test"), TestContext_new, SimpleContext_new,
     MyAppContext_new("db"), ExampleAppContext_new("test_db"),
     ExecutorExampleContext_new("executor_test_db"),
     AppContext_new("example_database")}

\* what the caller does with a `&mut` context outside any operation
Writes(context) ==
    IF context.type = "DatabaseContext"
    THEN {[method |-> "increment_transaction"]}
         \cup [method : {"cache_mut_insert"}, key : Keys, value : Values]
    ELSE {}

Write(context, w) ==
    CASE context.type = "DatabaseContext" /\ w.method = "increment_transaction" ->
             increment_transaction(context)
      [] context.type = "DatabaseContext" /\ w.method = "cache_mut_insert" ->
             cache_mut_insert(context, w.key, w.value)

\* the counter a context carries
Counter(context) ==
    CASE context.type \in {"TestContext", "MyAppContext"} -> context.counter
      [] context.type = "SimpleContext" -> 0
      [] context.type = "ApplicationContext" ->
             context.database.transaction_count
      [] OTHER -> context.transaction_count

Bounded(context) ==
    /\ Counter(context) <= MaxCount
    /\ context.type = "ApplicationContext" =>
           Len(context.audit_log) <= MaxAuditLog

(***************************************************************************)
(* The calling program: it owns a context, calls operations on it          *)
(* directly or through execute_on, may hand it to an ApiExecutor, and      *)
(* then dispatches operations and uses the accessors.                      *)
(***************************************************************************)
Moved == [type |-> "Moved"]
NoExecutor == [tag |-> "NoExecutor"]
NoStep == [via |-> "none"]

\* The caller's account: `increments` sums the CounterProps.increment values
\* dispatched through the executor; `count` sums every increment it asked a
\* DatabaseContext for; `stored` holds the value it last stored under a key.
\* `dispatched_only` holds while every call so far went through execute.
Tallied(t, op_type, parameters, dispatched) ==
    LET u == [t EXCEPT !.dispatched_only = @ /\ dispatched]
    IN CASE op_type = "IncrementOperation" ->
                [u EXCEPT !.count = @ + parameters.increment,
                          !.increments = IF dispatched
                                         THEN @ + parameters.increment ELSE @]
         [] op_type = "StoreOperation" ->
                [u EXCEPT !.count = @ + 1,
                          !.stored = HashMap_insert(@, parameters.key,
                                                    parameters.value)]
         [] OTHER -> u

TalliedWrite(t, w) ==
    LET u == [t EXCEPT !.dispatched_only = FALSE]
    IN CASE w.method = "increment_transaction" -> [u EXCEPT !.count = @ + 1]
         [] w.method = "cache_mut_insert" ->
                [u EXCEPT !.stored = HashMap_insert(@, w.key, w.value)]

\* `after` is the kind of call made right before this one
Step(via, op, parameters, pre, post, parameters_after, result, calls) ==
    [via |-> via, after |-> last.via, op |-> op, parameters |-> parameters, pre |-> pre,
     post |-> post, parameters_after |-> parameters_after,
     result |-> result, calls |-> calls]

\* the caller's context and its record of the call, once a call made on the
\* caller's own context has returned with effect `e`
Returned(via, op, parameters, e) ==
    /\ Bounded(e.context)
    /\ local' = e.context
    /\ last' = Step(via, op, parameters, local, e.context, e.parameters,
                    e.result, e.calls)

\* the executor and the caller's record of the call, once a call made on the
\* executor has returned with effect `e`
ReturnedByExecutor(via, op, parameters, e) ==
    /\ Bounded(e.self.context)
    /\ executor' = e.self
    /\ last' = Step(via, op, parameters, executor.context, e.self.context,
                    e.parameters, e.result, e.calls)

Init ==
    /\ local \in InitialContexts
    /\ executor = NoExecutor
    /\ last = NoStep
    /\ tally = [increments |-> 0, count |-> 0, stored |-> HashMap_new,
                dispatched_only |-> TRUE]
    /\ frames = <<>>

\* `Op::execute(&mut context, &parameters)` on the caller's own context
DirectExecute ==
    /\ local # Moved
    /\ \E t \in OpTypes :
         /\ ContextOf(t) = local.type
         /\ \E p \in ParametersOf(t) :
              /\ Returned("direct", [type |-> t], p,
                          ApiOperation_execute(t, local, p))
              /\ tally' = Tallied(tally, t, p, FALSE)
    /\ UNCHANGED <<executor, frames>>

\* `op.execute_on(&mut context, &parameters)` on the caller's own context
ExecuteOn ==
    /\ local # Moved
    /\ \E op \in OpValues :
         /\ ContextOf(op.type) = local.type
         /\ \E p \in ParametersOf(op.type) :
              /\ Returned("execute_on", op, p, execute_on(op, local, p))
              /\ tally' = Tallied(tally, op.type, p, FALSE)
    /\ UNCHANGED <<executor, frames>>

\* a construction that leaves the caller a usable copy of the context
New_keeping_a_copy ==
    /\ local # Moved
    /\ executor = NoExecutor
    /\ LET e == ApiExecutor_new(local)
       IN /\ executor' = e.self
          /\ last' = Step("new", Unit, e.parameters, local, e.self.context,
                          e.parameters, e.result, e.calls)
    /\ UNCHANGED <<local, tally, frames>>

\* `ApiExecutor::new(context)`: the context moves into the executor
New ==
    /\ local # Moved
    /\ executor = NoExecutor
    /\ LET e == ApiExecutor_new(local)
       IN /\ executor' = e.self
          /\ last' = Step("new", Unit, e.parameters, local, e.self.context,
                          e.parameters, e.result, e.calls)
    /\ local' = Moved
    /\ UNCHANGED <<tally, frames>>

\* `executor.execute(op, &parameters)`
Dispatch ==
    /\ executor # NoExecutor
    /\ \E op \in OpValues :
         /\ ContextOf(op.type) = executor.context.type
         /\ \E p \in ParametersOf(op.type) :
              /\ ReturnedByExecutor("executor", op, p,
                                    ApiExecutor_execute(executor, op, p))
              /\ tally' = Tallied(tally, op.type, p, TRUE)
    /\ UNCHANGED <<local, frames>>

\* `executor.context()`
ReadContext ==
    /\ executor # NoExecutor
    /\ LET e == ApiExecutor_context(executor)
       IN /\ executor' = e.self
          /\ last' = Step("context", Unit, e.parameters, executor.context,
                          e.self.context, e.parameters, e.result, e.calls)
    /\ UNCHANGED <<local, tally, frames>>

\* `executor.context_mut()` used for a write outside any operation
WriteContext ==
    /\ executor # NoExecutor
    /\ \E w \in Writes(executor.context) :
         LET c == Write(ApiExecutor_context_mut(executor), w)
             self == ApiExecutor_context_mut_assign(executor, c)
         IN /\ Bounded(self.context)
            /\ executor' = self
            /\ last' = Step("context_mut", Unit, w, executor.context,
                            self.context, w, Unit, <<>>)
            /\ tally' = TalliedWrite(tally, w)
    /\ UNCHANGED <<local, frames>>

\* `Op::execute(executor.context_mut(), &parameters)`
ExecuteThroughContextMut ==
    /\ executor # NoExecutor
    /\ \E t \in OpTypes :
         /\ ContextOf(t) = executor.context.type
         /\ \E p \in ParametersOf(t) :
              /\ ReturnedByExecutor(
                     "through_context_mut", [type |-> t], p,
                     execute_through_context_mut(executor, t, p))
              /\ tally' = Tallied(tally, t, p, FALSE)
    /\ UNCHANGED <<local, frames>>

Next ==
    \/ DirectExecute
    \/ ExecuteOn
    \/ New
    \/ Dispatch
    \/ ReadContext
    \/ WriteContext
    \/ ExecuteThroughContextMut

Spec == Init /\ [][Next]_vars

(***************************************************************************)
(* A dispatch followed step by step.  ApiExecutor::execute is entered,     *)
(* calls the operation's execute with `&mut self.context`, the operation   *)
(* runs its statements on the held context in place (IncrementOperation    *)
(* one loop iteration at a time, UpdateUser with its nested call of        *)
(* FindUser::execute), returns its Result to ApiExecutor::execute, which   *)
(* returns it to the caller.  The caller is a sequential program: it is    *)
(* at a call site only while no call is in progress.                       *)
(***************************************************************************)
ExecutorFrame(op, parameters, context) ==
    [fn |-> "ApiExecutor::execute", op |-> op, parameters |-> parameters,
     pre |-> context, calls |-> <<>>, got |-> None]

OpFrame(op_type, parameters) ==
    [fn |-> op_type, parameters |-> parameters, i |-> 0, got |-> None,
     result |-> None]

top == frames[Len(frames)]
below == SubSeq(frames, 1, Len(frames) - 1)

\* the frames after the innermost call changed its own frame to `frame`
WithTop(frame) == below \o <<frame>>

\* the frames after `frame` entered a call of `op_type`'s execute, which the
\* outermost frame logs
Entered(frame, op_type, parameters) ==
    LET fs == WithTop(frame) \o <<OpFrame(op_type, parameters)>>
    IN [fs EXCEPT ![1].calls =
            @ \o Invoked(op_type, executor.context, parameters)]

\* the dispatches in progress
Dispatches == {k \in DOMAIN frames : frames[k].fn = "ApiExecutor::execute"}

\* the statements of UpdateUser::execute after the call of FindUser::execute
UpdateUser_after_find(context, parameters, found) ==
    IF found.tag = "Err"
    THEN Effect(context, parameters, found, <<>>)
    ELSE LET user0 == found.output
             user1 == IF parameters.name.tag = "Some"
                      THEN [user0 EXCEPT !.name = parameters.name.value]
                      ELSE user0
         IN IF parameters.email.tag = "Some"
               /\ ~contains(parameters.email.value, "@")
            THEN Effect(context, parameters, Err("InvalidEmail"), <<>>)
            ELSE LET user2 == IF parameters.email.tag = "Some"
                              THEN [user1 EXCEPT
                                        !.email = parameters.email.value]
                              ELSE user1
                     c1 == AppContext_increment_transaction(context)
                     c2 == AppContext_cache_mut_insert(
                               c1, user_key(user2.id),
                               user_value(user2.name, user2.email))
                 IN Effect(c2, parameters, Ok(user2), <<>>)

\* what `last` holds while the latest call has not returned yet
InCall == [via |-> "in progress"]

InitSteps ==
    /\ local = Moved
    /\ executor \in {ApiExecutor_new(c).self : c \in InitialContexts}
    /\ last = NoStep
    /\ tally = [increments |-> 0, count |-> 0, stored |-> HashMap_new,
                dispatched_only |-> TRUE]
    /\ frames = <<>>

\* a caller that dispatches while a dispatch is still in progress
Call_during_a_call ==
    /\ executor # NoExecutor
    /\ Len(frames) < 4
    /\ \E op \in OpValues :
         /\ ContextOf(op.type) = executor.context.type
         /\ \E p \in ParametersOf(op.type) :
              /\ Bounded(ApiExecutor_execute(executor, op, p).self.context)
              /\ frames' = frames \o <<ExecutorFrame(op, p, executor.context)>>
    /\ last' = InCall
    /\ UNCHANGED <<local, executor, tally>>

\* the caller reaches `executor.execute(op, &parameters)`
Call ==
    /\ executor # NoExecutor
    /\ frames = <<>>
    /\ \E op \in OpValues :
         /\ ContextOf(op.type) = executor.context.type
         /\ \E p \in ParametersOf(op.type) :
              /\ Bounded(ApiExecutor_execute(executor, op, p).self.context)
              /\ frames' = <<ExecutorFrame(op, p, executor.context)>>
    /\ last' = InCall
    /\ UNCHANGED <<local, executor, tally>>

\* ApiExecutor::execute calls `Op::execute(&mut self.context, parameters)`
Enter ==
    /\ frames # <<>>
    /\ top.fn = "ApiExecutor::execute"
    /\ top.got = None
    /\ frames' = Entered(top, top.op.type, top.parameters)
    /\ UNCHANGED <<local, executor, last, tally>>

\* one iteration of IncrementOperation's loop
IncrementIterate ==
    /\ frames # <<>>
    /\ top.fn = "IncrementOperation"
    /\ top.result = None
    /\ top.i < top.parameters.increment
    /\ executor' = [executor EXCEPT
                        !.context = increment_transaction(executor.context)]
    /\ frames' = WithTop([top EXCEPT !.i = @ + 1])
    /\ UNCHANGED <<local, last, tally>>

\* an IncrementOperation that returns after its first iteration
IncrementDone_after_one ==
    /\ frames # <<>>
    /\ top.fn = "IncrementOperation"
    /\ top.result = None
    /\ top.i = top.parameters.increment \/ top.i = 1
    /\ frames' = WithTop([top EXCEPT
           !.result = Some(Ok(transaction_count(executor.context)))])
    /\ UNCHANGED <<local, executor, last, tally>>

\* the loop is over: `Ok(context.transaction_count())`
IncrementDone ==
    /\ frames # <<>>
    /\ top.fn = "IncrementOperation"
    /\ top.result = None
    /\ top.i = top.parameters.increment
    /\ frames' = WithTop([top EXCEPT
           !.result = Some(Ok(transaction_count(executor.context)))])
    /\ UNCHANGED <<local, executor, last, tally>>

\* UpdateUser calls `FindUser::execute(context, &find_parameters)`
UpdateFind ==
    /\ frames # <<>>
    /\ top.fn = "UpdateUser"
    /\ top.result = None
    /\ top.got = None
    /\ top.i = 0
    /\ frames' = Entered([top EXCEPT !.i = 1], "FindUser",
                         [user_id |-> top.parameters.user_id])
    /\ UNCHANGED <<local, executor, last, tally>>

\* UpdateUser goes on with what FindUser returned
UpdateRest ==
    /\ frames # <<>>
    /\ top.fn = "UpdateUser"
    /\ top.result = None
    /\ top.got # None
    /\ LET e == UpdateUser_after_find(executor.context, top.parameters,
                                      top.got.value)
       IN /\ executor' = [executor EXCEPT !.context = e.context]
          /\ frames' = WithTop([top EXCEPT !.result = Some(e.result)])
    /\ UNCHANGED <<local, last, tally>>

\* the body of an operation that has no loop and no nested call
Body ==
    /\ frames # <<>>
    /\ top.fn \in OpTypes \ {"IncrementOperation", "UpdateUser"}
    /\ top.result = None
    /\ LET e == ApiOperation_execute(top.fn, executor.context, top.parameters)
       IN /\ executor' = [executor EXCEPT !.context = e.context]
          /\ frames' = WithTop([top EXCEPT !.result = Some(e.result)])
    /\ UNCHANGED <<local, last, tally>>

\* an operation's execute returns its Result to its caller
OpReturn ==
    /\ Len(frames) > 1
    /\ top.fn \in OpTypes
    /\ top.result # None
    /\ frames' = [below EXCEPT ![Len(below)].got = top.result]
    /\ UNCHANGED <<local, executor, last, tally>>

\* ApiExecutor::execute returns the operation's Result to the caller
Return ==
    /\ frames # <<>>
    /\ top.fn = "ApiExecutor::execute"
    /\ top.got # None
    /\ frames' = below
    /\ last' = Step("executor", top.op, top.parameters, top.pre,
                    executor.context, top.parameters, top.got.value,
                    top.calls)
    /\ tally' = Tallied(tally, top.op.type, top.parameters, TRUE)
    /\ UNCHANGED <<local, executor>>

\* the steps of a call in progress
Run ==
    \/ Enter
    \/ IncrementIterate
    \/ IncrementDone
    \/ UpdateFind
    \/ UpdateRest
    \/ Body
    \/ OpReturn
    \/ Return

NextSteps == Call \/ Run

\* a call in progress keeps running: nothing suspends the calling thread
SpecSteps == InitSteps /\ [][NextSteps]_vars /\ WF_vars(Run)

(***************************************************************************)
(* A caller that, like main of examples/executor_pattern.rs, builds an     *)
(* executor right away, only dispatches through it and inspects the        *)
(* context, and keeps its own count of the operations it dispatched and    *)
(* of the entities the creates returned.                                   *)
(***************************************************************************)
Creates == {"CreateUser", "PatternCreateUser", "CreateProduct"}

\* the caller's count after a dispatch of `op_type` returned `result`
Counted(t, op_type, result) ==
    [executed |-> t.executed + 1,
     created |-> IF op_type \in Creates /\ result.tag = "Ok"
                 THEN t.created + 1 ELSE t.created]

InitCounted ==
    /\ local = Moved
    /\ executor \in {ApiExecutor_new(c).self :
                        c \in {PatternAppContext_new("production_db"),
                               AppContext_new("example_database"),
                               DatabaseContext_new("test")}}
    /\ last = NoStep
    /\ tally = [executed |-> 0, created |-> 0]
    /\ frames = <<>>

\* `executor.execute(op, &parameters)`, counted by the caller
DispatchCounted ==
    /\ tally.executed < MaxDispatches
    /\ \E op \in OpValues :
         /\ ContextOf(op.type) = executor.context.type
         /\ \E p \in ParametersOf(op.type) :
              /\ ReturnedByExecutor("executor", op, p,
                                    ApiExecutor_execute(executor, op, p))
              /\ tally' = Counted(tally, op.type, last'.result)
    /\ UNCHANGED <<local, frames>>

\* `executor.context()`, to print the transaction count and the cache
Inspect ==
    /\ LET e == ApiExecutor_context(executor)
       IN /\ executor' = e.self
          /\ last' = Step("context", Unit, e.parameters, executor.context,
                          e.self.context, e.parameters, e.result, e.calls)
    /\ UNCHANGED <<local, tally, frames>>

NextCounted == DispatchCounted \/ Inspect

SpecCounted == InitCounted /\ [][NextCounted]_vars

(***************************************************************************)
(* The caller of examples/advanced_patterns.rs: it owns an                 *)
(* ApplicationContext and calls operations on it and, for the plain        *)
(* operations, on its `database` field.                                    *)
(***************************************************************************)
InitAdvanced ==
    /\ local = ApplicationContext_new("advanced_production_db", 12345)
    /\ executor = NoExecutor
    /\ last = NoStep
    /\ tally = [increments |-> 0, count |-> 0, stored |-> HashMap_new,
                dispatched_only |-> TRUE]
    /\ frames = <<>>

\* the operations main calls on the `database` field itself
DatabaseOps == {"AdvancedFindUser"}

\* `FindUser::execute(&mut app_context.database, &parameters)`
DatabaseExecute ==
    /\ local.type = "ApplicationContext"
    /\ \E t \in DatabaseOps :
         /\ ContextOf(t) = local.database.type
         /\ \E p \in ParametersOf(t) :
              LET e == ApiOperation_execute(t, local.database, p)
                  c == [local EXCEPT !.database = e.context]
              IN /\ Bounded(c)
                 /\ local' = c
                 /\ last' = Step("direct", [type |-> t], p, local, c,
                                 e.parameters, e.result, e.calls)
                 /\ tally' = Tallied(tally, t, p, FALSE)
    /\ UNCHANGED <<executor, frames>>

NextAdvanced == DirectExecute \/ DatabaseExecute

SpecAdvanced == InitAdvanced /\ [][NextAdvanced]_vars

(***************************************************************************)
(* A caller that keeps what its creates returned, as main of               *)
(* examples/executor_pattern.rs does in created_users and                  *)
(* created_products, on an executor over the context of that example or of *)
(* examples/basic_usage.rs (whose UpdateUser counts a transaction too).    *)
(***************************************************************************)
\* the operations that create a user
UserCreators == {"CreateUser", "PatternCreateUser"}

\* the caller's vectors after a dispatch of `op_type` returned `result`
Pushed(t, op_type, result) ==
    IF result.tag = "Ok" /\ op_type \in UserCreators
    THEN [t EXCEPT !.created_users = Append(@, result.output)]
    ELSE IF result.tag = "Ok" /\ op_type = "CreateProduct"
    THEN [t EXCEPT !.created_products = Append(@, result.output)]
    ELSE t

InitRecorded ==
    /\ local = Moved
    /\ executor \in {ApiExecutor_new(c).self :
                        c \in {PatternAppContext_new("production_db"),
                               AppContext_new("example_database")}}
    /\ last = NoStep
    /\ tally = [created_users |-> <<>>, created_products |-> <<>>]
    /\ frames = <<>>

\* the executor and the caller's record and vectors, once the dispatch has
\* returned with effect `e`
Recorded(op, parameters, e) ==
    /\ Counter(e.self.context) <= MaxIds
    /\ executor' = e.self
    /\ last' = Step("executor", op, parameters, executor.context,
                    e.self.context, e.parameters, e.result, e.calls)
    /\ tally' = Pushed(tally, op.type, e.result)

\* `executor.execute(op, &parameters)`, the output of a create pushed
DispatchRecorded ==
    /\ \E op \in OpValues :
         /\ ContextOf(op.type) = executor.context.type
         /\ \E p \in ParametersOf(op.type) :
              Recorded(op, p, ApiExecutor_execute(executor, op, p))
    /\ UNCHANGED <<local, frames>>

NextRecorded == DispatchRecorded

SpecRecorded == InitRecorded /\ [][NextRecorded]_vars

(***************************************************************************)
(* The callers of the two operations that call another operation on the    *)
(* context they were given: main of examples/advanced_patterns.rs on its   *)
(* ApplicationContext (CreateUserWithProduct, CreateUserWithValidation)    *)
(* and main of examples/basic_usage.rs on its AppContext (UpdateUser).     *)
(***************************************************************************)
InitComposed ==
    /\ local \in {ApplicationContext_new("advanced_production_db", 12345),
                  AppContext_new("example_database")}
    /\ executor = NoExecutor
    /\ last = NoStep
    /\ tally = [increments |-> 0, count |-> 0, stored |-> HashMap_new,
                dispatched_only |-> TRUE]
    /\ frames = <<>>

NextComposed == DirectExecute \/ DatabaseExecute

SpecComposed == InitComposed /\ [][NextComposed]_vars

(***************************************************************************)
(* The claims.                                                             *)
(***************************************************************************)
\* the calls that run an operation
OpVias == {"direct", "execute_on", "executor", "through_context_mut"}

\* C1. Executor transparency: ApiExecutor::execute(O, p) returns the same
\* Result, leaves the held context in the same state and makes the same
\* execute invocations as O::execute called on executor.context_mut() with
\* p from the same held context.
C1_ExecutorTransparency ==
    last.via = "executor" =>
        LET d == execute_through_context_mut(
                     [context |-> last.pre], last.op.type, last.parameters)
        IN /\ last.result = d.result
           /\ executor = d.self
           /\ last.calls = d.calls

\* ExecutorCreateUser dispatched through the executor created the second user
C1_Witness ==
    /\ last.via = "executor"
    /\ last.op.type = "ExecutorCreateUser"
    /\ last.result.tag = "Ok"
    /\ executor.context.transaction_count = 2
    /\ executor.context # last.pre

\* C2. Wrapper conformance: T.execute_on(context, params) returns the same
\* Result and leaves the same context as T::execute(context, params) from
\* the same context and parameters.
C2_WrapperConformance ==
    last.via = "execute_on" =>
        LET d == ApiOperation_execute(last.op.type, last.pre, last.parameters)
        IN /\ last.result = d.result
           /\ local = d.context
           /\ last.calls = d.calls

\* SimpleOperation.execute_on stored the input and returned "Processed: x"
C2_Witness ==
    /\ last.via = "execute_on"
    /\ last.op.type = "SimpleOperation"
    /\ last.result = Ok(Processed \o <<"x">>)
    /\ local.data = <<"x">>
    /\ last.pre.data = <<>>

\* C3 as claimed: on an executor that only dispatched operations, each
\* operation is entered with the context the call before left, a retrieve
\* returns the value last stored under its key, and an IncrementOperation
\* returns the sum of the increments dispatched so far.
C3_AsClaimed ==
    (last.via = "executor" /\ tally.dispatched_only) =>
        /\ last.calls[1].context = last.pre
        /\ last.op.type = "RetrieveOperation" =>
               last.result = Ok(HashMap_get(tally.stored, last.parameters.key))
        /\ last.op.type = "IncrementOperation" =>
               last.result = Ok(tally.increments)

\* C3. Sequential composition: each dispatched operation is entered with the
\* context the call before left; a retrieve returns the value last stored
\* under its key by any earlier call; an IncrementOperation returns the sum
\* of every increment made to the transaction count so far, those of
\* StoreOperations and of increment_transaction calls included.
C3_SequentialComposition ==
    last.via = "executor" =>
        /\ last.calls[1].context = last.pre
        /\ last.op.type = "RetrieveOperation" =>
               last.result = Ok(HashMap_get(tally.stored, last.parameters.key))
        /\ last.op.type = "IncrementOperation" =>
               last.result = Ok(tally.count)

\* after a StoreOperation and an earlier increment, a dispatched
\* IncrementOperation returned the running count and the stored value is held
C3_Witness ==
    /\ last.via = "executor"
    /\ last.op.type = "IncrementOperation"
    /\ last.parameters.increment = 1
    /\ last.pre.transaction_count = 1
    /\ last.result = Ok(2)
    /\ tally.dispatched_only
    /\ HashMap_get(executor.context.cache, <<"k">>) = Some(<<"v">>)

\* C4. The executor itself never fails: execute returns Err exactly when the
\* operation's own execute returns Err from the same context and parameters,
\* and then it returns that very error value.
C4_ExecutorNeverFails ==
    last.via = "executor" =>
        LET d == ApiOperation_execute(last.op.type, last.pre, last.parameters)
        IN /\ (last.result.tag = "Err") <=> (d.result.tag = "Err")
           /\ d.result.tag = "Err" => last.result.error = d.result.error

\* UpdateUser dispatched for an unknown id: FindUser's NotFound reached the
\* caller through `?` and through the executor
C4_Witness ==
    /\ last.via = "executor"
    /\ last.op.type = "UpdateUser"
    /\ last.result = Err("NotFound")

\* C5. Error short-circuit: a call that returns Err carries no Output and
\* leaves the context as it found it (every modelled operation returns its
\* error before its first mutation); TestOperation with an empty value and
\* CreateEntity with an empty name return their error with the counter
\* unchanged.
C5_ErrorShortCircuit ==
    last.via \in OpVias =>
        /\ last.result.tag = "Err" =>
               /\ DOMAIN last.result = {"tag", "error"}
               /\ last.post = last.pre
        /\ (last.op.type = "TestOperation" /\ is_empty(last.parameters.value)) =>
               /\ last.result = Err("EmptyValue")
               /\ last.post.counter = last.pre.counter
        /\ (last.op.type = "CreateEntity" /\ is_empty(last.parameters.name)) =>
               /\ last.result = Err("ValidationFailed")
               /\ last.post.counter = last.pre.counter

\* TestOperation failed on an empty value after an earlier success
C5_Witness ==
    /\ last.via \in OpVias
    /\ last.op.type = "TestOperation"
    /\ last.result = Err("EmptyValue")
    /\ last.pre.counter = 1
    /\ last.post.counter = 1

\* C6. Exactly-once dispatch: a call of ApiExecutor::execute enters the
\* operation's execute once, with the held context and the given parameters;
\* dispatching IncrementOperation with increment n raises the held
\* transaction count by exactly n and returns the new count.
C6_ExactlyOnce ==
    last.via = "executor" =>
        /\ Cardinality({i \in DOMAIN last.calls :
                            last.calls[i].op = last.op.type}) = 1
        /\ last.calls[1] = [op |-> last.op.type, context |-> last.pre,
                            parameters |-> last.parameters]
        /\ last.op.type = "IncrementOperation" =>
               /\ executor.context.transaction_count
                      = last.pre.transaction_count + last.parameters.increment
               /\ last.result = Ok(executor.context.transaction_count)

\* IncrementOperation with increment 2 dispatched on a fresh executor
C6_Witness ==
    /\ last.via = "executor"
    /\ last.op.type = "IncrementOperation"
    /\ last.parameters.increment = 2
    /\ last.pre.transaction_count = 0
    /\ last.result = Ok(2)

C9_Accessors ==
    /\ last.via = "context" =>
           /\ last.result = last.pre
           /\ executor = [context |-> last.pre]
           /\ last.calls = <<>>
    /\ last.via = "context_mut" =>
           executor = [context |-> Write(last.pre, last.parameters)]
    /\ (last.via = "executor" /\ last.after = "context_mut") =>
           /\ last.calls[1].context = last.pre
           /\ last.op.type = "RetrieveOperation" =>
                  last.result =
                      Ok(HashMap_get(tally.stored, last.parameters.key))
           /\ last.op.type = "IncrementOperation" =>
                  last.result = Ok(tally.count)

\* a retrieve dispatched right after a cache insert through context_mut
\* returned the inserted value; no StoreOperation ever ran
C9_Witness ==
    /\ last.via = "executor"
    /\ last.after = "context_mut"
    /\ last.op.type = "RetrieveOperation"
    /\ last.parameters.key = <<"k">>
    /\ last.result = Ok(Some(<<"v">>))
    /\ tally.count = 0

\* C10. Construction: right after ApiExecutor::new(c) the executor holds c
\* and context() returns c, the caller no longer holds it, and no execute
\* invocation was made; built from a newly constructed DatabaseContext, the
\* transaction count is 0 and the cache is empty.
C10_Construction ==
    last.via = "new" =>
        /\ executor = [context |-> last.pre]
        /\ ApiExecutor_context(executor).result = last.pre
        /\ last.calls = <<>>
        /\ local = Moved
        /\ (last.after = "none" /\ last.pre.type = "DatabaseContext") =>
               /\ transaction_count(executor.context) = 0
               /\ HashMap_is_empty(cache(executor.context))

\* an executor built from a DatabaseContext the caller had already used
C10_Witness ==
    /\ last.via = "new"
    /\ last.after = "direct"
    /\ executor.context.type = "DatabaseContext"
    /\ executor.context.transaction_count = 2
    /\ HashMap_len(executor.context.cache) = 1

\* the calls that reach the held context through the executor
ExecutorVias == {"executor", "context_mut", "through_context_mut"}

C13_DispatchTerminates ==
    /\ (frames # <<>>) ~> (frames = <<>>)
    /\ [](last.via = "executor" =>
              /\ \/ last.result.tag = "Ok" /\ DOMAIN last.result = {"tag", "output"}
                 \/ last.result.tag = "Err" /\ DOMAIN last.result = {"tag", "error"}
              /\ last.op.type = "IncrementOperation" =>
                     /\ last.result =
                            Ok(last.pre.transaction_count
                               + last.parameters.increment)
                     /\ last.post.transaction_count =
                            last.pre.transaction_count
                            + last.parameters.increment)
    /\ [](\A k \in DOMAIN frames :
              (frames[k].fn \in OpTypes /\ frames[k].result # None) =>
                  frames[k].result.value.tag \in {"Ok", "Err"})

\* IncrementOperation dispatched with the largest increment has returned
C13_Witness ==
    /\ frames = <<>>
    /\ last.via = "executor"
    /\ last.op.type = "IncrementOperation"
    /\ last.parameters.increment = MaxIncrement
    /\ last.result = Ok(MaxIncrement)

\* the operations that create a user from a name and an email
UserCreates == {"CreateUser", "ExampleCreateUser", "ExecutorCreateUser"}

\* C14. Create success: from any context, a user creation whose email
\* contains '@' returns Ok; the id returned is the transaction counter after
\* the call, which is one more than before it (1 from a counter of 0); the
\* name and email returned are the parameters'.
C14_CreateSuccess ==
    (/\ last.via \in OpVias
     /\ last.op.type \in UserCreates
     /\ contains(last.parameters.email, "@")) =>
        /\ last.result.tag = "Ok"
        /\ last.result.output.id = last.post.transaction_count
        /\ last.post.transaction_count = last.pre.transaction_count + 1
        /\ last.pre.transaction_count = 0 => last.result.output.id = 1
        /\ last.result.output.name = last.parameters.name
        /\ last.result.output.email = last.parameters.email

\* the second user created on an AppContext of basic_usage
C14_Witness ==
    /\ last.via \in OpVias
    /\ last.op.type = "CreateUser"
    /\ last.pre.transaction_count = 1
    /\ last.result.tag = "Ok"
    /\ last.result.output.id = 2

\* C15 as claimed. Create/lookup round trip: a FindUser made right after a
\* successful CreateUser, with the id that CreateUser returned, returns Ok
\* with the user that CreateUser returned (same id, name and email).
C15_AsClaimed ==
    [][(/\ last.via \in OpVias
        /\ last.op.type = "CreateUser"
        /\ last.result.tag = "Ok"
        /\ last'.via \in OpVias
        /\ last'.op.type = "FindUser"
        /\ last'.parameters.user_id = last.result.output.id) =>
           last'.result = Ok(last.result.output)]_vars

\* C16. Create rejection: a user creation returns Err(InvalidEmail) exactly
\* when the email contains no '@'; then the context (counter and cache) is
\* as it was before the call, and a successful creation made right after
\* it receives the id the rejected one would have received.
C16_CreateRejection ==
    /\ []((last.via \in OpVias /\ last.op.type \in UserCreates) =>
              /\ last.result = Err("InvalidEmail")
                     <=> ~contains(last.parameters.email, "@")
              /\ last.result.tag = "Err" => last.post = last.pre)
    /\ [][(/\ last.via \in OpVias
           /\ last.op.type \in UserCreates
           /\ last.result.tag = "Err"
           /\ last'.via \in OpVias
           /\ last'.op.type \in UserCreates
           /\ last'.result.tag = "Ok") =>
              /\ last'.pre = last.pre
              /\ last'.result.output.id = last.pre.transaction_count + 1]_vars

\* a creation rejected after one user was created: the counter stays at 1
C16_Witness ==
    /\ last.via \in OpVias
    /\ last.op.type = "CreateUser"
    /\ last.result = Err("InvalidEmail")
    /\ last.pre.transaction_count = 1
    /\ last.post.transaction_count = 1
    /\ HashMap_len(last.post.cache) = 1

\* the operations that only look something up
Reads == {"FindUser", "PatternFindUser", "FindProduct", "RetrieveOperation"}

\* C17. Reads do not mutate: a dispatch of FindUser, FindProduct or
\* RetrieveOperation leaves the whole context (transaction count and cache
\* included) as it was before the call, whether it found something or not.
C17_ReadsDoNotMutate ==
    (last.via = "executor" /\ last.op.type \in Reads) =>
        /\ last.post = last.pre
        /\ executor.context = last.pre

\* FindProduct found the product that was created first, and left the count
C17_Witness ==
    /\ last.via = "executor"
    /\ last.op.type = "FindProduct"
    /\ last.result.tag = "Ok"
    /\ last.result.output.price = F64(1250)
    /\ last.pre.transaction_count = 1
    /\ last.post.transaction_count = 1

\* C18 as claimed. On the executor of the executor-pattern example, the
\* transaction count equals the number of operations dispatched so far.
C18_AsClaimed ==
    executor.context.type = "PatternAppContext" =>
        executor.context.transaction_count = tally.executed

\* C19. On the executor of the executor-pattern example, the cache holds as
\* many entries as creates returned Ok so far; a create that returns Ok
\* adds one entry under a key that was free and leaves every other entry
\* as it was, and no other dispatch changes the cache.
C19_CacheCountsEntities ==
    executor.context.type = "PatternAppContext" =>
        /\ HashMap_len(executor.context.cache) = tally.created
        /\ last.via = "executor" =>
               /\ \A k \in DOMAIN last.pre.cache :
                      /\ k \in DOMAIN last.post.cache
                      /\ last.post.cache[k] = last.pre.cache[k]
               /\ HashMap_len(last.post.cache) =
                      HashMap_len(last.pre.cache)
                      + (IF last.op.type \in Creates /\ last.result.tag = "Ok"
                         THEN 1 ELSE 0)

\* a user and then a product were created, and a lookup was made since
C19_Witness ==
    /\ executor.context.type = "PatternAppContext"
    /\ tally.created = 2
    /\ tally.executed > 2
    /\ DOMAIN executor.context.cache = {user_key(1), product_key(2)}

\* C20 as claimed. CreateUserWithProduct is one transaction: whenever it
\* returns Err, the database's transaction count and cache are what they
\* were at the start of the call.
C20_AsClaimed ==
    (last.via = "direct" /\ last.op.type = "CreateUserWithProduct"
     /\ last.result.tag = "Err") =>
        /\ last.post.database.transaction_count =
               last.pre.database.transaction_count
        /\ last.post.database.cache = last.pre.database.cache

\* C21. Nested composition: an operation that calls another operation on
\* the context it was given sees and keeps the inner operation's mutations.
\* A successful CreateUserWithProduct enters CreateProduct with the database
\* the user's creation left, raises the database transaction count by
\* exactly 2, keeps both cache entries and returns a product whose id is the
\* user's id plus 1; a successful UpdateUser enters FindUser with the
\* context it was given, raises the count by exactly 1 and leaves the
\* returned user in the cache.
C21_NestedComposition ==
    /\ (last.via = "direct" /\ last.op.type = "CreateUserWithProduct"
        /\ last.result.tag = "Ok") =>
           LET user == last.result.output[1]
               product == last.result.output[2]
               before == last.pre.database
               after_ == last.post.database
           IN /\ after_.transaction_count = before.transaction_count + 2
              /\ user.id = before.transaction_count + 1
              /\ product.id = user.id + 1
              /\ Len(last.calls) = 4
              /\ last.calls[2].op = "CreateUserWithValidation"
              /\ last.calls[2].context.database = before
              /\ last.calls[3].op = "AdvancedCreateUser"
              /\ last.calls[3].context = before
              /\ last.calls[4].op = "AdvancedCreateProduct"
              /\ last.calls[4].context.transaction_count = user.id
              /\ HashMap_get(last.calls[4].context.cache, user_key(user.id))
                     = Some(user_value(user.name, user.email))
              /\ HashMap_get(after_.cache, user_key(user.id))
                     = Some(user_value(user.name, user.email))
              /\ HashMap_get(after_.cache, product_key(product.id))
                     = Some(product_value(product.name, product.price,
                                          product.category))
    /\ (last.via = "direct" /\ last.op.type = "UpdateUser"
        /\ last.result.tag = "Ok") =>
           LET user == last.result.output
           IN /\ last.post.transaction_count =
                     last.pre.transaction_count + 1
              /\ Len(last.calls) = 2
              /\ last.calls[2].op = "FindUser"
              /\ last.calls[2].context = last.pre
              /\ user.id = last.parameters.user_id
              /\ HashMap_get(last.post.cache, user_key(user.id))
                     = Some(user_value(user.name, user.email))

\* a CreateUserWithProduct that succeeded on a database that already held a
\* transaction
C21_Witness ==
    /\ last.via = "direct"
    /\ last.op.type = "CreateUserWithProduct"
    /\ last.result.tag = "Ok"
    /\ last.result.output[2].id = last.result.output[1].id + 1
    /\ last.post.database.transaction_count = 2

\* C22 as claimed. With enhanced validation enabled, CreateUserWithValidation
\* returns InvalidEmail whenever the name has fewer than 2 characters.
C22_AsClaimed ==
    (/\ last.via = "direct"
     /\ last.op.type = "CreateUserWithValidation"
     /\ is_feature_enabled(last.pre, <<"enhanced_validation">>)
     /\ Len(last.parameters.name) < 2) =>
        last.result = Err("InvalidEmail")

\* C23 as claimed. Update/lookup round trip: a FindUser made right after a
\* successful UpdateUser, for the id that was updated, returns Ok with that
\* id, and with each of name and email equal to the new value when one was
\* supplied and to the value stored before the update when none was.
C23_AsClaimed ==
    [][(/\ last.via \in OpVias
        /\ last.op.type = "UpdateUser"
        /\ last.result.tag = "Ok"
        /\ last'.via \in OpVias
        /\ last'.op.type = "FindUser"
        /\ last'.parameters.user_id = last.parameters.user_id) =>
           LET stored == FindUser_execute(
                             last.pre, [user_id |-> last.parameters.user_id]
                         ).result.output
           IN last'.result =
                  Ok([id |-> last.parameters.user_id,
                      name |-> IF last.parameters.name.tag = "Some"
                               THEN last.parameters.name.value
                               ELSE stored.name,
                      email |-> IF last.parameters.email.tag = "Some"
                                THEN last.parameters.email.value
                                ELSE stored.email])]_vars

\* C24. UpdateUser failure leaves the context unchanged: for an id with no
\* cache entry it returns Err(NotFound); for a user it found and a supplied
\* new email without '@' it returns Err(InvalidEmail); it returns no other
\* error, and on every Err the context (transaction count and cache, the
\* stored name included even if a new name was supplied) is as it was
\* before the call.
C24_UpdateFailure ==
    (last.via \in OpVias /\ last.op.type = "UpdateUser") =>
        LET entry == HashMap_get(last.pre.cache,
                                 user_key(last.parameters.user_id))
            found == /\ entry.tag = "Some"
                     /\ Len(split(entry.value, ":")) = 2
            email == last.parameters.email
        IN /\ ~found => last.result = Err("NotFound")
           /\ (found /\ email.tag = "Some" /\ ~contains(email.value, "@"))
                  => last.result = Err("InvalidEmail")
           /\ last.result.tag = "Err" =>
                  /\ last.result.error \in {"NotFound", "InvalidEmail"}
                  /\ last.post = last.pre
                  /\ HashMap_get(last.post.cache,
                                 user_key(last.parameters.user_id)) = entry

\* an update of a stored user with a new name and a new email without '@'
C24_Witness ==
    /\ last.via \in OpVias
    /\ last.op.type = "UpdateUser"
    /\ last.parameters.name.tag = "Some"
    /\ last.parameters.email.tag = "Some"
    /\ last.result = Err("InvalidEmail")
    /\ HashMap_get(last.post.cache, user_key(last.parameters.user_id)).tag
           = "Some"
    /\ last.post = last.pre

\* the ids of the users and products the creates have returned so far
CreatedIds ==
    {tally.created_users[i].id : i \in DOMAIN tally.created_users}
    \cup {tally.created_products[i].id : i \in DOMAIN tally.created_products}

\* C25. Identifier uniqueness: over any sequence of creates, updates and
\* lookups of users and products dispatched on one context, the transaction
\* count never decreases, the id a successful create returns is greater
\* than every id a create returned before it, and so the ids returned are
\* pairwise distinct.
C25_IdentifierUniqueness ==
    /\ [][executor'.context.transaction_count
             >= executor.context.transaction_count]_vars
    /\ [][(last'.op.type \in Creates /\ last'.result.tag = "Ok") =>
             /\ \A id \in CreatedIds : last'.result.output.id > id
             /\ CreatedIds' = CreatedIds \cup {last'.result.output.id}]_vars
    /\ [](Cardinality(CreatedIds) =
              Len(tally.created_users) + Len(tally.created_products))

\* a user, then a product, then a second user were created: ids 1, 2, 3
C25_Witness ==
    /\ executor.context.type = "PatternAppContext"
    /\ Len(tally.created_users) = 2
    /\ Len(tally.created_products) = 1
    /\ tally.created_users[1].id = 1
    /\ tally.created_products[1].id = 2
    /\ tally.created_users[2].id = 3

\* C26. Family separation on a shared context: on one executor of the
\* executor-pattern example, a FindUser for an id that a CreateProduct
\* returned gives Err(NotFound), and a FindProduct for an id that a
\* CreateUser returned gives Err(NotFound).
C26_FamilySeparation ==
    /\ (/\ last.via = "executor"
        /\ last.op.type = "PatternFindUser"
        /\ \E i \in DOMAIN tally.created_products :
               tally.created_products[i].id = last.parameters.user_id) =>
           last.result = Err("NotFound")
    /\ (/\ last.via = "executor"
        /\ last.op.type = "FindProduct"
        /\ \E i \in DOMAIN tally.created_users :
               tally.created_users[i].id = last.parameters.product_id) =>
           last.result = Err("NotFound")

\* a user and a product exist, and a user was looked up by the product's id
C26_Witness ==
    /\ last.via = "executor"
    /\ last.op.type = "PatternFindUser"
    /\ Len(tally.created_users) > 0
    /\ \E i \in DOMAIN tally.created_products :
           tally.created_products[i].id = last.parameters.user_id
    /\ last.result = Err("NotFound")

\* for each log_operation call an operation on the ApplicationContext makes
\* on the path that gave `step` its result (simulate_rollback's included),
\* in order: how many transactions the database has counted since the
\* operation was entered
Stamps(step) ==
    CASE step.op.type = "CreateUserWithValidation"
             /\ step.result.tag = "Ok" -> <<0, 1>>
      [] step.op.type = "CreateUserWithValidation" -> <<0, 0>>
      [] step.op.type = "CreateUserWithProduct"
             /\ step.result.tag = "Ok" -> <<0, 0, 1, 1, 2, 2>>
      [] step.op.type = "CreateUserWithProduct"
             /\ Len(step.calls) = 4 -> <<0, 0, 1, 1, 1, 1>>
      [] step.op.type = "CreateUserWithProduct" -> <<0, 0, 0, 0, 0>>
      [] OTHER -> <<>>

\* C27. The audit log is append-only.  With audit_logging enabled every
\* call appends one entry per log_operation call it makes and changes no
\* entry that was there; each new entry carries the transaction count the
\* database had when it was logged, so the transaction_ids never decrease
\* along the log and none exceeds the current count; nothing but the log
\* and the database changes.  A failed CreateUserWithProduct ends with a
\* successful "rollback" entry, and its database is the one the failed
\* step left: the rollback changed neither count nor cache.
C27_AuditLogAppendOnly ==
    /\ [][/\ Len(local'.audit_log) >= Len(local.audit_log)
          /\ SubSeq(local'.audit_log, 1, Len(local.audit_log))
                 = local.audit_log]_vars
    /\ [](\A i, j \in DOMAIN local.audit_log :
              i <= j => /\ local.audit_log[i].transaction_id
                           <= local.audit_log[j].transaction_id
                        /\ local.audit_log[j].transaction_id
                           <= local.database.transaction_count)
    /\ [](last.via = "direct" =>
              /\ is_feature_enabled(last.pre, <<"audit_logging">>)
              /\ Len(last.post.audit_log) =
                     Len(last.pre.audit_log) + Len(Stamps(last))
              /\ \A k \in DOMAIN Stamps(last) :
                     last.post.audit_log[Len(last.pre.audit_log) + k]
                         .transaction_id
                     = last.pre.database.transaction_count + Stamps(last)[k]
              /\ [last.post EXCEPT !.audit_log = <<>>,
                                   !.database = last.pre.database]
                     = [last.pre EXCEPT !.audit_log = <<>>]
              /\ (/\ last.op.type = "CreateUserWithProduct"
                  /\ last.result.tag = "Err") =>
                     LET log == last.post.audit_log
                     IN /\ log[Len(log)].operation = <<"rollback">>
                        /\ log[Len(log)].success
                        /\ ~log[Len(log) - 1].success
                        /\ last.post.database =
                               IF Len(last.calls) = 4
                               THEN last.calls[4].context
                               ELSE last.pre.database)

\* a CreateUserWithProduct whose product failed after its user was
\* created: six new entries, the last one the rollback's, stamped 1
C27_Witness ==
    /\ last.via = "direct"
    /\ last.op.type = "CreateUserWithProduct"
    /\ last.result.tag = "Err"
    /\ Len(last.calls) = 4
    /\ Len(last.post.audit_log) = Len(last.pre.audit_log) + 6
    /\ last.post.audit_log[Len(last.post.audit_log)].operation
           = <<"rollback">>
    /\ last.post.audit_log[Len(last.post.audit_log)].transaction_id = 1

====
